---- MODULE Spec2Model ----
(***************************************************************************)
(* Model of pinvgcn/hypergraphs.py: the incidence normalizer               *)
(* (normalized_incidence), the Laplacian spectrum solver                   *)
(* (hypergraph_laplacian_decomposition) and the transform that chains them *)
(* (HypergraphPinv.__call__).                                              *)
(*                                                                         *)
(* Numbers.  The normalizer only multiplies integers by square roots of    *)
(* rationals, so a float is modelled exactly as  sgn * sqrt(num/den)  with *)
(* num/den in lowest terms, or as +-inf, or as NaN, following IEEE-754 as  *)
(* numpy applies it (1/sqrt(0) = inf, inf*0 = NaN, sqrt(<0) = NaN).        *)
(* Singular values are levels 0..MaxSigma (sigma = level/MaxSigma) or NaN; *)
(* an optional value is << >> (None / NaN) or <<v>>.                       *)
(***************************************************************************)
EXTENDS Integers, Sequences, FiniteSets, TLC

\* ------------------------------------------------------------------ bounds
\* nodes and hyperedges of the hypergraphs handed to the transform
MaxNodes == 3
MaxEdges == 4
\* largest rank a HypergraphPinv is built with
MaxRank == 4
\* resolution of the singular values
MaxSigma == 2
\* direct calls repeated on one input
MaxCalls == 2
\* cells of the matrices enumerated exhaustively for the normalizer
MaxCells == 6

\* values of the small-scope inputs
Entries == {-1, 0, 1}
WeightValues == {1, 2}
Tols == {0, 1}
Thresholds == {"1e-6", "1e-2"}

VARIABLES
    self,      \* the HypergraphPinv object: rank, eig_tol, eig_threshold
    data,      \* the Data object handed in: x (incidence), hyperedge_weight
    entry,     \* which public entry point the caller uses
    args,      \* the caller's num_ev and tol of a direct decomposition call
    pc,        \* position of the run
    inc,       \* the matrix normalized_incidence returned (or NoMatrix)
    result,    \* what hypergraph_laplacian_decomposition returned (or NoResult)
    calls,     \* every function invocation of the run, in order
    stored,    \* the arguments setup_spectral_data was called with (or NotStored)
    ret,       \* the object __call__ returned (its oid), or << >>
    outcome,   \* "running", "returned", or the exception that ended the run
    ncalls     \* completed direct calls on this input (repeat calls)

vars == <<self, data, entry, args, pc, inc, result, calls, stored, ret, outcome, ncalls>>

\* ------------------------------------------------------------ optional values
None == << >>
Some(v) == <<v>>
IsNone(o) == o = << >>
Val(o) == o[1]

\* ------------------------------------------------------------------- floats
RECURSIVE Gcd(_, _)
Gcd(a, b) == IF b = 0 THEN a ELSE Gcd(b, a % b)

Abs(i) == IF i < 0 THEN -i ELSE i
Sign(i) == IF i > 0 THEN 1 ELSE IF i < 0 THEN -1 ELSE 0

NaN == [k |-> "nan", sgn |-> 0, num |-> 0, den |-> 0]
Inf(s) == [k |-> "inf", sgn |-> s, num |-> 0, den |-> 0]
\* sgn * sqrt(n/d), n >= 0, d > 0, in lowest terms
Fin(s, n, d) ==
    IF n = 0 \/ s = 0 THEN [k |-> "fin", sgn |-> 0, num |-> 0, den |-> 1]
    ELSE LET g == Gcd(n, d) IN [k |-> "fin", sgn |-> s, num |-> n \div g, den |-> d \div g]

FromInt(h) == Fin(Sign(h), h * h, 1)

\* a * b on floats
Mul(a, b) ==
    IF a.k = "nan" \/ b.k = "nan" THEN NaN
    ELSE IF a.k = "inf" \/ b.k = "inf"
         THEN IF a.sgn * b.sgn = 0 THEN NaN ELSE Inf(a.sgn * b.sgn)
         ELSE Fin(a.sgn * b.sgn, a.num * b.num, a.den * b.den)

\* 1/np.sqrt(d) for an integer-valued d
RSqrt(d) == IF d > 0 THEN Fin(1, 1, d) ELSE IF d = 0 THEN Inf(1) ELSE NaN

\* np.sqrt(w / b) for integer-valued w, b
SqrtRatio(w, b) ==
    IF b = 0 THEN (IF w > 0 THEN Inf(1) ELSE NaN)
    ELSE IF w = 0 THEN Fin(0, 0, 1)
    ELSE IF Sign(w) * Sign(b) < 0 THEN NaN
    ELSE Fin(1, Abs(w), Abs(b))

\* ----------------------------------------------------------------- matrices
NoMatrix == [n |-> 0, m |-> 0, a |-> << >>, none |-> TRUE]
Matrix(n, m, a) == [n |-> n, m |-> m, a |-> a, none |-> FALSE]

IsFiniteMatrix(M) == \A p \in DOMAIN M.a : M.a[p].k = "fin"

\* ------------------------------------------------- normalized_incidence
RECURSIVE RowDot(_, _, _, _)
\* (inc @ weights)[v], summed over the first e columns
RowDot(x, wt, v, e) == IF e = 0 THEN 0 ELSE RowDot(x, wt, v, e - 1) + x[<<v, e>>] * wt[e]

RECURSIVE ColSum(_, _, _)
\* (np.ones(n) @ inc)[e], summed over the first v rows
ColSum(x, e, v) == IF v = 0 THEN 0 ELSE ColSum(x, e, v - 1) + x[<<v, e>>]

\* weights: data.hyperedge_weight if the data has one, else all ones
WeightsOf(d) == IF d.has_weight THEN d.hyperedge_weight ELSE [e \in 1..d.m |-> 1]

\* d = inc @ weights
NodeDegree(d) == [v \in 1..d.n |-> RowDot(d.x, WeightsOf(d), v, d.m)]

\* (variant: the hyperedge degree summed with the weights)
WeightedEdgeDegree(d) == [e \in 1..d.m |-> ColSum([p \in DOMAIN d.x |-> d.x[p] * WeightsOf(d)[p[2]]], e, d.n)]

\* b = np.ones(inc.shape[0]) @ inc
HyperedgeDegree(d) == [e \in 1..d.m |-> ColSum(d.x, e, d.n)]

\* return d * inc * b   with d = 1/sqrt(d)[:,newaxis], b = sqrt(weights / b)
normalized_incidence(d) ==
    LET dd == [v \in 1..d.n |-> RSqrt(NodeDegree(d)[v])]
        bb == [e \in 1..d.m |-> SqrtRatio(WeightsOf(d)[e], HyperedgeDegree(d)[e])]
    IN Matrix(d.n, d.m,
              [p \in (1..d.n) \X (1..d.m) |-> Mul(Mul(dd[p[1]], FromInt(d.x[p])), bb[p[2]])])

\* --------------------------------------------------- the linear-algebra backend
MinDim(M) == IF M.n < M.m THEN M.n ELSE M.m

\* the singular values of a p-dimensional problem, largest first
Descending(p) == {t \in [1..p -> 0..MaxSigma] : \A i \in 1..(p - 1) : t[i] >= t[i + 1]}

Perms(k) == {o \in [1..k -> 1..k] : \A i, j \in 1..k : o[i] = o[j] => i = j}

SolverError(name) ==
    [ok |-> FALSE, error |-> name, sigma |-> << >>, U |-> << >>, rows |-> 0, trip |-> << >>]

\* np.linalg.svd(inc, full_matrices=False): min(n,m) triplets, singular values
\* descending; column j of U is triplet j.  It may raise LinAlgError; on a matrix
\* holding inf/NaN a build that does not raise returns NaN.
svd_outcomes(M) ==
    LET p == MinDim(M) IN
    {SolverError("LinAlgError")} \cup
    (IF IsFiniteMatrix(M)
     THEN {[ok |-> TRUE, error |-> "", sigma |-> [i \in 1..p |-> Some(t[i])],
            U |-> [i \in 1..p |-> i], rows |-> M.n, trip |-> [i \in 1..p |-> Some(t[i])]]
           : t \in Descending(p)}
     ELSE {[ok |-> TRUE, error |-> "", sigma |-> [i \in 1..p |-> None],
            U |-> [i \in 1..p |-> i], rows |-> M.n, trip |-> [i \in 1..p |-> None]]})

\* sp.linalg.svds(inc, k, tol=tol): the k largest triplets in an order the
\* backend chooses; ValueError unless 0 < k < min(n,m); ArpackNoConvergence when
\* the iteration does not converge.
svds_outcomes(M, k, tol) ==
    LET p == MinDim(M) IN
    IF k <= 0 \/ k >= p THEN {SolverError("ValueError")}
    ELSE {SolverError("ArpackNoConvergence")} \cup
         (IF IsFiniteMatrix(M)
          THEN {[ok |-> TRUE, error |-> "", sigma |-> [i \in 1..k |-> Some(t[o[i]])],
                 U |-> [i \in 1..k |-> o[i]], rows |-> M.n, trip |-> [i \in 1..p |-> Some(t[i])]]
                : t \in Descending(p), o \in Perms(k)}
          ELSE {[ok |-> TRUE, error |-> "", sigma |-> [i \in 1..k |-> None],
                 U |-> [i \in 1..k |-> i], rows |-> M.n, trip |-> [i \in 1..p |-> None]]})

\* ------------------------------------ hypergraph_laplacian_decomposition
\* one invocation: the function, its count and tolerance arguments, and the
\* exception it ended with ("" when it returned)
Call(fn, k, tol, raised) == [fn |-> fn, k |-> k, tol |-> tol, raised |-> raised]

\* x.astype(np.float32): rounding to the coarser grid (monotone, lossy)
Float32(s) == 2 * (s \div 2)

\* (variant: the squared singular value itself, the complement forgotten)
EigNoComplement(s) == IF IsNone(s) THEN None ELSE Some(Float32(Val(s)) * Float32(Val(s)))

\* 1 - sigma.astype(np.float32)**2, in units of 1/MaxSigma^2
Eig(s) == IF IsNone(s) THEN None ELSE Some(MaxSigma * MaxSigma - Float32(Val(s)) * Float32(Val(s)))

\* s[:k]
Take(s, k) == SubSeq(s, 1, IF k < Len(s) THEN k ELSE Len(s))

\* (variant: the cutoff taken inclusively)
UseFullSVDAtHalf(M, num_ev) == IsNone(num_ev) \/ 2 * Val(num_ev) >= M.m

\* if num_ev is None or num_ev > inc.shape[1]/2
UseFullSVD(M, num_ev) == IsNone(num_ev) \/ 2 * Val(num_ev) > M.m

NoResult ==
    [ok |-> FALSE, error |-> "", w |-> << >>, U |-> << >>, rows |-> 0, trip |-> << >>,
     solver |-> << >>]

\* return 1 - sigma.astype(np.float32)**2, U.astype(np.float32)
Returned(r, solver) ==
    IF r.ok
    THEN [ok |-> TRUE, error |-> "", w |-> [i \in 1..Len(r.sigma) |-> Eig(r.sigma[i])],
          U |-> r.U, rows |-> r.rows, trip |-> r.trip, solver |-> solver]
    ELSE [NoResult EXCEPT !.error = r.error, !.solver = solver]

\* (variant: the slicing left out)
TruncateNothing(r, num_ev) == r

\* U = U[:,:num_ev]; sigma = sigma[:num_ev]
Truncate(r, num_ev) ==
    IF r.ok /\ ~IsNone(num_ev)
    THEN [r EXCEPT !.U = Take(r.U, Val(num_ev)), !.sigma = Take(r.sigma, Val(num_ev))]
    ELSE r

\* (variant: a truncated solve that failed is repaired by the full SVD)
DecompositionWithFallback(M, num_ev, tol) ==
    IF UseFullSVD(M, num_ev)
    THEN {Returned(Truncate(r, num_ev), <<Call("svd", None, None, r.error)>>)
          : r \in svd_outcomes(M)}
    ELSE UNION {IF r.ok
                THEN {Returned(r, <<Call("svds", num_ev, Some(tol), r.error)>>)}
                ELSE {Returned(Truncate(f, num_ev),
                               <<Call("svds", num_ev, Some(tol), r.error),
                                 Call("svd", None, None, f.error)>>)
                      : f \in svd_outcomes(M)}
                : r \in svds_outcomes(M, Val(num_ev), tol)}

\* every result the function can produce on (inc, num_ev, tol)
hypergraph_laplacian_decomposition(M, num_ev, tol) ==
    IF UseFullSVD(M, num_ev)
    THEN {Returned(Truncate(r, num_ev), <<Call("svd", None, None, r.error)>>)
          : r \in svd_outcomes(M)}
    ELSE {Returned(r, <<Call("svds", num_ev, Some(tol), r.error)>>)
          : r \in svds_outcomes(M, Val(num_ev), tol)}

\* ------------------------------------------------------------------ the runs
NotStored ==
    [set |-> FALSE, w |-> << >>, U |-> << >>, rows |-> 0, threshold |-> "", max_rank |-> None,
     data |-> 0]

\* (variant: the rank handed on without the margin)
NumEvNoMargin(s) == s.rank

\* num_ev=None if self.rank is None else self.rank+1
NumEv(s) == IF IsNone(s.rank) THEN None ELSE Some(Val(s.rank) + 1)

\* (variant: the weighting done in place on the array shared with data.x)
NormalizeInPlace ==
    /\ pc = "start"
    /\ inc' = normalized_incidence(data)
    /\ data' = [data EXCEPT !.x = [p \in DOMAIN data.x |-> data.x[p] * WeightsOf(data)[p[2]]]]
    /\ calls' = Append(calls, Call("normalized_incidence", None, None, ""))
    /\ pc' = IF entry = "normalize" THEN "done" ELSE "normalized"
    /\ outcome' = IF entry = "normalize" THEN "returned" ELSE outcome
    /\ ncalls' = IF entry = "normalize" THEN ncalls + 1 ELSE ncalls
    /\ UNCHANGED <<self, entry, args, result, stored, ret>>

\* inc = normalized_incidence(data)
Normalize ==
    /\ pc = "start"
    /\ inc' = normalized_incidence(data)
    /\ calls' = Append(calls, Call("normalized_incidence", None, None, ""))
    /\ pc' = IF entry = "normalize" THEN "done" ELSE "normalized"
    /\ outcome' = IF entry = "normalize" THEN "returned" ELSE outcome
    /\ ncalls' = IF entry = "normalize" THEN ncalls + 1 ELSE ncalls
    /\ UNCHANGED <<self, data, entry, args, result, stored, ret>>

\* w, U = hypergraph_laplacian_decomposition(inc, num_ev=..., tol=self.eig_tol)
Decompose ==
    /\ pc = "normalized"
    /\ entry = "transform"
    /\ \E r \in hypergraph_laplacian_decomposition(inc, NumEv(self), self.eig_tol) :
          /\ result' = r
          /\ calls' = Append(calls, Call("hypergraph_laplacian_decomposition", NumEv(self),
                                         Some(self.eig_tol), r.error)) \o r.solver
          /\ pc' = IF r.ok THEN "decomposed" ELSE "done"
          /\ outcome' = IF r.ok THEN outcome ELSE r.error
    /\ UNCHANGED <<self, data, entry, args, inc, stored, ret, ncalls>>

\* a caller's own hypergraph_laplacian_decomposition(inc, num_ev, tol)
DirectDecompose ==
    /\ pc = "normalized"
    /\ entry = "decomposition"
    /\ \E r \in hypergraph_laplacian_decomposition(inc, args.num_ev, args.tol) :
          /\ result' = r
          /\ calls' = Append(calls, Call("hypergraph_laplacian_decomposition", args.num_ev,
                                         Some(args.tol), r.error)) \o r.solver
          /\ outcome' = IF r.ok THEN "returned" ELSE r.error
    /\ pc' = "done"
    /\ ncalls' = ncalls + 1
    /\ UNCHANGED <<self, data, entry, args, inc, stored, ret>>

\* (variant: the builder given the padded count rank+1 as max_rank)
SetupWithMargin ==
    /\ pc = "decomposed"
    /\ stored' = [set |-> TRUE, w |-> result.w, U |-> result.U, rows |-> result.rows,
                  threshold |-> self.eig_threshold, max_rank |-> NumEv(self), data |-> data.oid]
    /\ calls' = Append(calls, Call("setup_spectral_data", NumEv(self), None, ""))
    /\ pc' = "return"
    /\ UNCHANGED <<self, data, entry, args, inc, result, ret, outcome, ncalls>>

\* setup_spectral_data(data, w, U, threshold=self.eig_threshold, max_rank=self.rank)
Setup ==
    /\ pc = "decomposed"
    /\ stored' = [set |-> TRUE, w |-> result.w, U |-> result.U, rows |-> result.rows,
                  threshold |-> self.eig_threshold, max_rank |-> self.rank, data |-> data.oid]
    /\ calls' = Append(calls, Call("setup_spectral_data", self.rank, None, ""))
    /\ pc' = "return"
    /\ UNCHANGED <<self, data, entry, args, inc, result, ret, outcome, ncalls>>

\* return data
Return ==
    /\ pc = "return"
    /\ ret' = Some(data.oid)
    /\ outcome' = "returned"
    /\ pc' = "done"
    /\ UNCHANGED <<self, data, entry, args, inc, result, calls, stored, ncalls>>

\* the caller calls the same function again on the same arguments
Recall ==
    /\ pc = "done"
    /\ entry \in {"normalize", "decomposition"}
    /\ ncalls < MaxCalls
    /\ pc' = IF entry = "normalize" THEN "start" ELSE "normalized"
    /\ outcome' = "running"
    /\ calls' = << >>
    /\ UNCHANGED <<self, data, entry, args, inc, result, stored, ret, ncalls>>

\* --------------------------------------------------------------- the inputs
Data(oid, n, m, x, has_weight, wt) ==
    [oid |-> oid, n |-> n, m |-> m, x |-> x, has_weight |-> has_weight, hyperedge_weight |-> wt]

Patterns == {"full", "checker", "isolated_node", "empty_edge"}

PatternEntry(pat, n, m, v, e) ==
    CASE pat = "full" -> 1
      [] pat = "checker" -> IF (v + e) % 2 = 0 THEN 1 ELSE 0
      [] pat = "isolated_node" -> IF v = n THEN 0 ELSE 1
      [] pat = "empty_edge" -> IF e = m THEN 0 ELSE 1

\* incidence matrices of every shape up to MaxNodes x MaxEdges, one per pattern,
\* without weights or with alternating weights
IsPatternData(d) ==
    \E n \in 0..MaxNodes, m \in 0..MaxEdges, pat \in Patterns, hw \in BOOLEAN :
        d = Data(1, n, m, [p \in (1..n) \X (1..m) |-> PatternEntry(pat, n, m, p[1], p[2])],
                 hw, IF hw THEN [e \in 1..m |-> 1 + (e % 2)] ELSE << >>)

\* every incidence matrix over Entries with at most MaxCells cells, without
\* weights or with any weight vector over WeightValues
SmallShapes == {s \in (0..MaxCells) \X (0..MaxCells) : s[1] * s[2] <= MaxCells}

IsSmallData(d) ==
    \E s \in SmallShapes :
        \E x \in [(1..s[1]) \X (1..s[2]) -> Entries] :
            \E hw \in BOOLEAN :
                \E wt \in IF hw THEN [1..s[2] -> WeightValues] ELSE {<< >>} :
                    d = Data(1, s[1], s[2], x, hw, wt)

\* HypergraphPinv(rank=None, eig_tol=0, eig_threshold=1e-6)
DefaultSelf == [rank |-> None, eig_tol |-> 0, eig_threshold |-> "1e-6"]

Ranks == {None} \cup {Some(k) : k \in 1..MaxRank}

Idle ==
    /\ pc = "start"
    /\ inc = NoMatrix
    /\ result = NoResult
    /\ calls = << >>
    /\ stored = NotStored
    /\ ret = None
    /\ outcome = "running"
    /\ ncalls = 0

Init ==
    /\ Idle
    /\ IsPatternData(data)
    /\ entry \in {"transform", "decomposition", "normalize"}
    /\ self \in IF entry = "transform"
                THEN [rank : Ranks, eig_tol : Tols, eig_threshold : Thresholds]
                ELSE {DefaultSelf}
    /\ args \in IF entry = "decomposition"
                THEN [num_ev : {None} \cup {Some(k) : k \in 1..(MaxRank + 1)}, tol : Tols]
                ELSE {[num_ev |-> None, tol |-> 0]}

Next == Normalize \/ Decompose \/ DirectDecompose \/ Setup \/ Return \/ Recall

Spec == Init /\ [][Next]_vars

InitNorm ==
    /\ Idle
    /\ IsSmallData(data)
    /\ entry = "normalize"
    /\ self = DefaultSelf
    /\ args = [num_ev |-> None, tol |-> 0]

NextNorm == Normalize

SpecNorm == InitNorm /\ [][NextNorm]_vars

\* ================================================================== claims
IsDecompositionCall(c) == c.fn = "hypergraph_laplacian_decomposition"
IsSolverCall(c) == c.fn \in {"svd", "svds"}
CallsOf(names) == SelectSeq(calls, LAMBDA c : c.fn \in names)

\* C1 -- rank margin: the transform asks hypergraph_laplacian_decomposition for
\* exactly rank+1 eigenpairs when its rank is a number, and passes None (never a
\* number) when its rank is None.
C1_RankMargin ==
    entry = "transform" =>
        \A i \in DOMAIN calls :
            IsDecompositionCall(calls[i]) =>
                IF IsNone(self.rank) THEN IsNone(calls[i].k)
                ELSE calls[i].k = Some(Val(self.rank) + 1)

C1_Witness ==
    /\ entry = "transform"
    /\ ~IsNone(self.rank)
    /\ data.n > 0 /\ data.m > 0
    /\ \E i \in DOMAIN calls :
          /\ IsDecompositionCall(calls[i])
          /\ calls[i].k = Some(Val(self.rank) + 1)
          /\ calls[i].raised = ""

\* C3 -- algorithm selection: a decomposition call invokes exactly one solver; it
\* is the full SVD if and only if num_ev is None or num_ev > numHyperedges/2 (so
\* num_ev = numHyperedges/2 exactly goes truncated), and otherwise the truncated
\* solver, asked for exactly num_ev triplets with the caller's tolerance.
C3_AlgorithmSelection ==
    \A i \in DOMAIN calls :
        IsDecompositionCall(calls[i]) =>
            /\ Len(CallsOf({"svd", "svds"})) = 1
            /\ i + 1 \in DOMAIN calls
            /\ IF IsNone(calls[i].k) \/ 2 * Val(calls[i].k) > inc.m
               THEN calls[i + 1].fn = "svd"
               ELSE /\ calls[i + 1].fn = "svds"
                    /\ calls[i + 1].k = calls[i].k
                    /\ calls[i + 1].tol = calls[i].tol

C3_Witness ==
    \E i \in DOMAIN calls :
        /\ IsDecompositionCall(calls[i])
        /\ ~IsNone(calls[i].k)
        /\ 2 * Val(calls[i].k) = inc.m
        /\ i + 1 \in DOMAIN calls
        /\ calls[i + 1].fn = "svds"
        /\ calls[i + 1].raised = ""

\* a > b on floats that may be NaN: a comparison with NaN is false
Gt(a, b) == ~IsNone(a) /\ ~IsNone(b) /\ Val(a) > Val(b)

\* no eigenvalue is greater than a later one
Ascending(w) == \A i, j \in DOMAIN w : i < j => ~Gt(w[i], w[j])

\* the Laplacian eigenvalue 1 - sigma^2 of a singular value, in single precision
LaplacianEigenvalue(s) ==
    IF IsNone(s) THEN None
    ELSE LET f == 2 * (Val(s) \div 2) IN Some(MaxSigma * MaxSigma - f * f)

\* eigenvector column i is the singular vector of the triplet eigenvalue i came from
Paired(r) ==
    /\ Len(r.U) = Len(r.w)
    /\ \A i \in DOMAIN r.w : r.U[i] \in DOMAIN r.trip /\ r.w[i] = LaplacianEigenvalue(r.trip[r.U[i]])

\* C4 as stated -- ascending spectrum on both paths: whenever the decomposition
\* returns, full or truncated, the eigenvalues are in ascending order and
\* eigenvector column i belongs to eigenvalue i.
C4_AscendingOnBothPaths == result.ok => Ascending(result.w) /\ Paired(result)

\* C4 as amended -- on the full-SVD path the returned eigenvalues are in
\* ascending order; on both paths eigenvector column i belongs to eigenvalue i
\* (the truncated path keeps the order the truncated solver returned).
C4_AscendingOnFullPath ==
    result.ok =>
        /\ Paired(result)
        /\ result.solver[1].fn = "svd" => Ascending(result.w)

C4_Witness ==
    /\ result.ok
    /\ result.solver[1].fn = "svd"
    /\ Len(result.w) >= 2
    /\ Gt(result.w[2], result.w[1])

\* the run's decomposition call has returned a spectrum
Decomposed == result.ok /\ Len(CallsOf({"hypergraph_laplacian_decomposition"})) = 1

\* the num_ev of the run's decomposition call
RequestedCount == CallsOf({"hypergraph_laplacian_decomposition"})[1].k

Min3(a, b, c) == IF a <= b /\ a <= c THEN a ELSE IF b <= c THEN b ELSE c

C6_InvalidShapeRejected ==
    (\E i \in DOMAIN calls : IsDecompositionCall(calls[i])) /\ (inc.n = 0 \/ inc.m = 0) =>
        /\ outcome = "InvalidHypergraphError"
        /\ Len(CallsOf({"svd", "svds"})) = 0

\* C7 -- convergence failure is surfaced, not repaired: when the truncated solver
\* did not converge, the run has ended in that error after exactly one truncated
\* solve, with no full SVD, no call of setup_spectral_data, nothing stored on the
\* data and nothing returned.
C7_ConvergenceFailureSurfaced ==
    (\E i \in DOMAIN calls : calls[i].fn = "svds" /\ calls[i].raised = "ArpackNoConvergence") =>
        /\ outcome = "ArpackNoConvergence"
        /\ pc = "done"
        /\ Len(CallsOf({"svds"})) = 1
        /\ Len(CallsOf({"svd"})) = 0
        /\ Len(CallsOf({"setup_spectral_data"})) = 0
        /\ stored = NotStored
        /\ ret = None
        /\ ~result.ok

C7_Witness ==
    /\ entry = "transform"
    /\ outcome = "ArpackNoConvergence"
    /\ \E i \in DOMAIN calls : calls[i].fn = "svds" /\ calls[i].raised = "ArpackNoConvergence"

HasZeroRowOrColumn(d) ==
    \/ \E v \in 1..d.n : \A e \in 1..d.m : d.x[<<v, e>>] = 0
    \/ \E e \in 1..d.m : \A v \in 1..d.n : d.x[<<v, e>>] = 0

\* C2 -- degree-zero rejection: on an incidence matrix with an all-zero row or an
\* all-zero column, normalized_incidence ends in DegenerateDegreeError and
\* returns no matrix, so no solver is ever handed a matrix holding inf or NaN.
C2_DegreeZeroRejected ==
    /\ data.n >= 1 /\ data.m >= 1 /\ HasZeroRowOrColumn(data) /\ pc # "start" =>
          outcome = "DegenerateDegreeError" /\ inc = NoMatrix
    /\ Len(CallsOf({"svd", "svds"})) > 0 => IsFiniteMatrix(inc)

RECURSIVE SumFn(_)
\* the sum of a function's values
SumFn(f) ==
    IF DOMAIN f = {} THEN 0
    ELSE LET a == CHOOSE a \in DOMAIN f : TRUE
         IN f[a] + SumFn([b \in DOMAIN f \ {a} |-> f[b]])

\* w[e], d[v] = sum_e H[v,e]*w[e] and b[e] = sum_v H[v,e] of the data
W(e) == IF data.has_weight THEN data.hyperedge_weight[e] ELSE 1
D(v) == SumFn([e \in 1..data.m |-> data.x[<<v, e>>] * W(e)])
B(e) == SumFn([v \in 1..data.n |-> data.x[<<v, e>>]])

AllDegreesPositive ==
    (\A v \in 1..data.n : D(v) > 0) /\ (\A e \in 1..data.m : B(e) > 0)

NormalizeStep == pc = "start" /\ pc' # "start"
DecomposeStep == pc = "normalized" /\ pc' # "normalized"

\* C10 -- no side effects: a call of normalized_incidence leaves the data
\* (incidence matrix, weights) and everything but its own result unchanged, and
\* a repeated call on the same data returns the same matrix; a call of the
\* decomposition leaves the normalized incidence matrix and the data unchanged,
\* and a repeated call for which the solver answers the same returns the same
\* spectrum.
C10_NoSideEffects ==
    [][/\ NormalizeStep =>
            /\ data' = data
            /\ <<self, args, result, stored, ret>>' = <<self, args, result, stored, ret>>
            /\ ~inc.none => inc' = inc
       /\ DecomposeStep =>
            /\ inc' = inc
            /\ data' = data
            /\ <<self, args, stored, ret>>' = <<self, args, stored, ret>>
            /\ (ncalls > 0 /\ result.ok /\ result'.ok /\ result'.trip = result.trip
                /\ result'.U = result.U) => result' = result
      ]_vars

C10_Witness ==
    /\ entry = "decomposition"
    /\ ncalls = 2
    /\ result.ok
    /\ Len(result.w) >= 1
    /\ data.has_weight

====
